---------------------------- MODULE Spec2Model ----------------------------
(***************************************************************************)
(* Model of the black-hawk service dashboard: the record store in its      *)
(* three implementations (MemStorage, PgStorage, DatabaseStorage), the     *)
(* access-filtered read routes, and the MonitoringService reconciliation   *)
(* cycle.                                                                  *)
(***************************************************************************)
EXTENDS Integers, Sequences, FiniteSets, Bags, TLC

VARIABLES
    backend,           \* which IStorage implementation the process runs on
    services,          \* services table / MemStorage.services
    healthData,        \* health_data table / MemStorage.healthData
    serviceInfo,       \* service_info table / MemStorage.serviceInfo
    kafkaStreamsInfo,  \* kafka_streams_info table / MemStorage.kafkaStreamsInfo
    nextServiceId,     \* number of service identifiers handed out so far, plus one
    clock,             \* the wall clock read by "new Date()"
    lastCall,          \* the storage call that completed last, with its return value
    userCategories,    \* user_category_permissions joined with categories, per user
    resp,              \* the HTTP response sent last
    intervalId,        \* MonitoringService.intervalId: the timer set last, 0 for null
    timers,            \* the interval timers that are active in the event loop
    cycles,            \* the monitorServices() invocations, by slot
    downstream         \* what each monitored service answers, where that is fixed

storeVars == <<services, healthData, serviceInfo, kafkaStreamsInfo, nextServiceId>>
vars == <<backend, services, healthData, serviceInfo, kafkaStreamsInfo,
          nextServiceId, clock, lastCall, userCategories, resp,
          intervalId, timers, cycles, downstream>>

---------------------------------------------------------------------------
(* Bounds of the model. *)

\* Services ever created in one behaviour.
MaxServices == 2
\* Last value of the clock.
MaxClock == 1
\* Interval timers active at the same time.
MaxTimers == 1
\* monitorServices() invocations in flight at the same time.
MaxCycles == 1
\* The same, where cycles that overlap are looked at.
MaxOverlap == 2
\* Interval timers active at the same time, where start() is called again.
MaxStarts == 2

---------------------------------------------------------------------------
(* Values. *)

Backends == {"mem", "pg", "db"}
NULL == "null"
Statuses == {"UP", "DOWN"}
Categories == {"c1", "c2"}
\* The component map of a health body, as opaque data.
ComponentMaps == {"{db:UP}"}

ServiceIds == 1 .. MaxServices
(* randomUUID(): an identifier that no stored object has. Identifiers are   *)
(* only ever compared for equality, so which new one is drawn does not       *)
(* matter: service identifiers are drawn from 1, 2, ... and the identifier   *)
(* of a MemStorage record from the negative numbers, the first choice for   *)
(* a record of service sid being -sid.                                       *)
UsedIds(rows) == {r.id : r \in DOMAIN rows}
RecordUuid(rows, sid) ==
    IF (0 - sid) \notin UsedIds(rows) THEN 0 - sid
    ELSE 0 - (CHOOSE n \in 1 .. (Cardinality(UsedIds(rows)) + 1) :
                 /\ (0 - n) \notin UsedIds(rows)
                 /\ \A m \in 1 .. (n - 1) : (0 - m) \in UsedIds(rows))
\* The id of a row of the SQL backends (randomUUID(), gen_random_uuid()): it is
\* never read, the rows are found by service_id.
GeneratedId == 0

Range(s) == {s[i] : i \in DOMAIN s}

\* x || null: undefined, null and the empty string are falsy.
Falsy == {NULL, "undefined", ""}
OrNull(x) == IF x \in Falsy THEN NULL ELSE x

(* A table is the bag of its rows: SQL gives a table no order, and the        *)
(* code never relies on the iteration order of a Map.                        *)
Keep(rows, kept) == [r \in kept |-> rows[r]]
Insert(rows, row) == rows (+) SetToBag({row})
ByServiceId(rows, sid) == {r \in BagToSet(rows) : r.serviceId = sid}
CountByServiceId(rows, sid) == BagCardinality(Keep(rows, ByServiceId(rows, sid)))

\* A set that leaves the value of an existing key as it is.
MapSetIfAbsent(m, k, v) ==
    IF \E r \in BagToSet(m) : r.id = k THEN m ELSE Insert(m, v)

\* Map.prototype.set: the value stored under an existing key is replaced.
MapSet(m, k, v) == Insert(Keep(m, {r \in BagToSet(m) : r.id # k}), v)
\* Map.prototype.delete
MapDelete(m, k) == Keep(m, {r \in BagToSet(m) : r.id # k})
\* DELETE FROM t WHERE service_id = sid
DeleteByServiceId(rows, sid) == Keep(rows, {r \in BagToSet(rows) : r.serviceId # sid})

---------------------------------------------------------------------------
(* Rows written by the three upserts. *)

HealthRow(id, h, now) ==
    [id |-> id, serviceId |-> h.serviceId, status |-> h.status,
     healthComponents |-> OrNull(h.healthComponents), lastChecked |-> now]

InfoRow(id, i, now) ==
    [id |-> id, serviceId |-> i.serviceId, version |-> OrNull(i.version),
     branch |-> OrNull(i.branch), buildTime |-> OrNull(i.buildTime),
     lastUpdated |-> now]

KafkaRow(id, k, now) ==
    [id |-> id, serviceId |-> k.serviceId, state |-> OrNull(k.state),
     threads |-> OrNull(k.threads), topics |-> OrNull(k.topics),
     partitions |-> OrNull(k.partitions), lastUpdated |-> now]

---------------------------------------------------------------------------
(* MemStorage: four Maps keyed by the identifier of the stored object. *)

\* A MemStorage upsert that never looks for the record it should replace.
MemRecordIdAlwaysNew(rows, sid, fresh) == fresh

\* existingData?.id || randomUUID()
MemRecordId(rows, sid, fresh) ==
    IF ByServiceId(rows, sid) # {} THEN (CHOOSE r \in ByServiceId(rows, sid) : TRUE).id
    ELSE fresh

MemUpsertHealthData(rows, h, fresh, now) ==
    MapSet(rows, MemRecordId(rows, h.serviceId, fresh),
           HealthRow(MemRecordId(rows, h.serviceId, fresh), h, now))

MemUpsertServiceInfo(rows, i, fresh, now) ==
    MapSet(rows, MemRecordId(rows, i.serviceId, fresh),
           InfoRow(MemRecordId(rows, i.serviceId, fresh), i, now))

MemUpsertKafkaStreamsInfo(rows, k, fresh, now) ==
    MapSet(rows, MemRecordId(rows, k.serviceId, fresh),
           KafkaRow(MemRecordId(rows, k.serviceId, fresh), k, now))

\* this.healthData.delete(id) and its two siblings: the key handed to the
\* three record Maps is the identifier of the service.
MemDeleteRelated(rows, id) == MapDelete(rows, id)

---------------------------------------------------------------------------
(* PgStorage: delete the rows of the service, then insert the new row. *)

PgInsert(rows, row) == Insert(rows, row)

PgUpsertHealthData(rows, h, now) ==
    PgInsert(DeleteByServiceId(rows, h.serviceId), HealthRow(GeneratedId, h, now))

PgUpsertServiceInfo(rows, i, now) ==
    PgInsert(DeleteByServiceId(rows, i.serviceId), InfoRow(GeneratedId, i, now))

PgUpsertKafkaStreamsInfo(rows, k, now) ==
    PgInsert(DeleteByServiceId(rows, k.serviceId), KafkaRow(GeneratedId, k, now))

---------------------------------------------------------------------------
(* DatabaseStorage: INSERT ... ON CONFLICT (service_id) DO UPDATE. *)

\* An INSERT without the ON CONFLICT clause, on a table without the unique
\* index on service_id.
DbInsertRegardless(rows, row) == Insert(rows, row)

\* The conflicting row keeps its place and its id, and takes the other
\* columns of the new row.
DbOnConflictDoUpdate(rows, row) ==
    IF ByServiceId(rows, row.serviceId) = {} THEN Insert(rows, row)
    ELSE BagOfAll(LAMBDA r : IF r.serviceId = row.serviceId
                             THEN [row EXCEPT !.id = r.id] ELSE r, rows)

DbUpsertHealthData(rows, h, now) ==
    DbOnConflictDoUpdate(rows, [HealthRow(GeneratedId, h, now)
                                  EXCEPT !.healthComponents = h.healthComponents])

DbUpsertServiceInfo(rows, i, now) ==
    DbOnConflictDoUpdate(rows, [InfoRow(GeneratedId, i, now)
                                  EXCEPT !.version = i.version, !.branch = i.branch,
                                         !.buildTime = i.buildTime])

DbUpsertKafkaStreamsInfo(rows, k, now) ==
    DbOnConflictDoUpdate(rows, [KafkaRow(GeneratedId, k, now)
                                  EXCEPT !.state = k.state, !.threads = k.threads,
                                         !.topics = k.topics,
                                         !.partitions = k.partitions])

---------------------------------------------------------------------------
(* The storage interface, on the backend in use. *)

UpsertedHealthData(rows, h, fresh, now) ==
    CASE backend = "mem" -> MemUpsertHealthData(rows, h, fresh, now)
      [] backend = "pg"  -> PgUpsertHealthData(rows, h, now)
      [] backend = "db"  -> DbUpsertHealthData(rows, h, now)

UpsertedServiceInfo(rows, i, fresh, now) ==
    CASE backend = "mem" -> MemUpsertServiceInfo(rows, i, fresh, now)
      [] backend = "pg"  -> PgUpsertServiceInfo(rows, i, now)
      [] backend = "db"  -> DbUpsertServiceInfo(rows, i, now)

UpsertedKafkaStreamsInfo(rows, k, fresh, now) ==
    CASE backend = "mem" -> MemUpsertKafkaStreamsInfo(rows, k, fresh, now)
      [] backend = "pg"  -> PgUpsertKafkaStreamsInfo(rows, k, now)
      [] backend = "db"  -> DbUpsertKafkaStreamsInfo(rows, k, now)

\* The record tables after deleteService(id).
DeletedRelated(rows, id) ==
    IF backend = "mem" THEN MemDeleteRelated(rows, id)
    ELSE DeleteByServiceId(rows, id)

(* The reads. A lookup answers with one matching row, or with undefined     *)
(* when there is none: the set of the answers it can give.                   *)
Undefined == [id |-> 0, serviceId |-> 0, undefined |-> TRUE]
OneOf(rows) == IF rows = {} THEN {Undefined} ELSE rows
getService(id) == OneOf({s \in services : s.id = id})
getHealthDataByServiceId(sid) == OneOf(ByServiceId(healthData, sid))
getServiceInfoByServiceId(sid) == OneOf(ByServiceId(serviceInfo, sid))
getKafkaStreamsInfoByServiceId(sid) == OneOf(ByServiceId(kafkaStreamsInfo, sid))

\* MemStorage.getHealthSummary / PgStorage.getHealthSummary: the services are
\* counted in the services table, the statuses over all rows of health_data.
CountStatus(rows, st) ==
    BagCardinality(Keep(rows, {h \in BagToSet(rows) : h.status = st}))
Summary(total, healthy, unhealthy) ==
    [totalServices |-> total, healthyServices |-> healthy,
     unhealthyServices |-> unhealthy,
     unknownServices |-> total - healthy - unhealthy]
MemGetHealthSummary ==
    Summary(Cardinality(services), CountStatus(healthData, "UP"),
            CountStatus(healthData, "DOWN"))
PgGetHealthSummary ==
    Summary(Cardinality(services), CountStatus(healthData, "UP"),
            CountStatus(healthData, "DOWN"))

(* DatabaseStorage: the optional categoryIds argument of the combined reads. *)
Omitted == [given |-> FALSE, ids |-> <<>>]
Given(ids) == [given |-> TRUE, ids |-> ids]

\* if (categoryIds && categoryIds.length > 0) ... eq(services.categoryId, categoryIds[0])
DbSelectServices(categoryIds) ==
    IF categoryIds.given /\ Len(categoryIds.ids) > 0
    THEN {s \in services : s.categoryId = categoryIds.ids[1]}
    ELSE services

\* const [healthDataResult] = await db.select()...: the status of the row read
\* for a service (service_id is the conflict target: one row at most).
DbHealthStatus(sid) ==
    IF ByServiceId(healthData, sid) = {} THEN "undefined"
    ELSE (CHOOSE h \in ByServiceId(healthData, sid) : TRUE).status

\* A summary that counts every service, whatever the caller may see.
DbGetHealthSummaryOfAll(categoryIds) ==
    Summary(Cardinality(services),
            Cardinality({s \in services : DbHealthStatus(s.id) = "UP"}),
            Cardinality({s \in services : DbHealthStatus(s.id) = "DOWN"}))

DbGetHealthSummary(categoryIds) ==
    Summary(Cardinality(DbSelectServices(categoryIds)),
            Cardinality({s \in DbSelectServices(categoryIds) : DbHealthStatus(s.id) = "UP"}),
            Cardinality({s \in DbSelectServices(categoryIds) : DbHealthStatus(s.id) = "DOWN"}))

\* storage.getHealthSummary() on the backend in use.
getHealthSummary ==
    CASE backend = "mem" -> MemGetHealthSummary
      [] backend = "pg"  -> PgGetHealthSummary
      [] backend = "db"  -> DbGetHealthSummary(Omitted)

---------------------------------------------------------------------------
(* The storage operations as steps: each call runs to completion. *)

NoCall == [op |-> "none", id |-> 0, result |-> FALSE]

\* createService: the new service takes the next identifier.
DoCreateService(cat) ==
    /\ nextServiceId <= MaxServices
    /\ services' = services \cup {[id |-> nextServiceId, categoryId |-> cat]}
    /\ nextServiceId' = nextServiceId + 1
    /\ UNCHANGED <<healthData, serviceInfo, kafkaStreamsInfo>>

\* deleteService: the service row and the rows related to it.
DoDeleteService(id) ==
    /\ services' = {s \in services : s.id # id}
    /\ healthData' = DeletedRelated(healthData, id)
    /\ serviceInfo' = DeletedRelated(serviceInfo, id)
    /\ kafkaStreamsInfo' = DeletedRelated(kafkaStreamsInfo, id)
    /\ UNCHANGED nextServiceId

DoUpsertHealthData(h) ==
    /\ healthData' = UpsertedHealthData(healthData, h, RecordUuid(healthData, h.serviceId), clock)
    /\ UNCHANGED <<services, serviceInfo, kafkaStreamsInfo, nextServiceId>>

DoUpsertServiceInfo(i) ==
    /\ serviceInfo' = UpsertedServiceInfo(serviceInfo, i, RecordUuid(serviceInfo, i.serviceId), clock)
    /\ UNCHANGED <<services, healthData, kafkaStreamsInfo, nextServiceId>>

DoUpsertKafkaStreamsInfo(k) ==
    /\ kafkaStreamsInfo' =
          UpsertedKafkaStreamsInfo(kafkaStreamsInfo, k,
                                   RecordUuid(kafkaStreamsInfo, k.serviceId), clock)
    /\ UNCHANGED <<services, healthData, serviceInfo, nextServiceId>>

---------------------------------------------------------------------------
(* SpecStore: a client calling the storage interface, one call at a time. *)

ExistingIds == {s.id : s \in services}

\* The arguments of the upserts.
StoreHealthInputs ==
    {[serviceId |-> sid, status |-> st, healthComponents |-> NULL] :
        sid \in ExistingIds, st \in Statuses}
InfoValues == [serviceId |-> 0, version |-> "1.0", branch |-> "main", buildTime |-> "t1"]
KafkaValues ==
    [serviceId |-> 0, state |-> "RUNNING", threads |-> "2", topics |-> "a, b",
     partitions |-> "4"]

idleMonitor ==
    UNCHANGED <<userCategories, resp, intervalId, timers, cycles, backend, downstream>>

StoreCreateService ==
    /\ \E cat \in Categories : DoCreateService(cat)
    /\ lastCall' = [op |-> "createService", id |-> nextServiceId, result |-> TRUE]
    /\ UNCHANGED clock /\ idleMonitor

StoreDeleteService ==
    /\ \E id \in 1 .. (nextServiceId - 1) :
          /\ DoDeleteService(id)
          /\ lastCall' = [op |-> "deleteService", id |-> id,
                          result |-> id \in ExistingIds]
    /\ UNCHANGED clock /\ idleMonitor

StoreUpsertHealthData ==
    /\ \E h \in StoreHealthInputs :
          /\ DoUpsertHealthData(h)
          /\ lastCall' = [op |-> "upsertHealthData", id |-> h.serviceId,
                          result |-> ByServiceId(healthData, h.serviceId) # {}]
    /\ UNCHANGED clock /\ idleMonitor

StoreUpsertServiceInfo ==
    /\ \E sid \in ExistingIds :
          /\ DoUpsertServiceInfo([InfoValues EXCEPT !.serviceId = sid])
          /\ lastCall' = [op |-> "upsertServiceInfo", id |-> sid,
                          result |-> ByServiceId(serviceInfo, sid) # {}]
    /\ UNCHANGED clock /\ idleMonitor

StoreUpsertKafkaStreamsInfo ==
    /\ \E sid \in ExistingIds :
          /\ DoUpsertKafkaStreamsInfo([KafkaValues EXCEPT !.serviceId = sid])
          /\ lastCall' = [op |-> "upsertKafkaStreamsInfo", id |-> sid,
                          result |-> ByServiceId(kafkaStreamsInfo, sid) # {}]
    /\ UNCHANGED clock /\ idleMonitor

EmptyStore ==
    /\ services = {}
    /\ healthData = EmptyBag
    /\ serviceInfo = EmptyBag
    /\ kafkaStreamsInfo = EmptyBag
    /\ nextServiceId = 1
    /\ clock = 0
    /\ lastCall = NoCall

StoreInit ==
    /\ backend \in Backends
    /\ EmptyStore
    /\ userCategories = <<>>
    /\ resp = <<>>
    /\ intervalId = 0
    /\ timers = {}
    /\ cycles = <<>>
    /\ downstream = <<>>

StoreNext ==
    \/ StoreCreateService
    \/ StoreDeleteService
    \/ StoreUpsertHealthData
    \/ StoreUpsertServiceInfo
    \/ StoreUpsertKafkaStreamsInfo

SpecStore == StoreInit /\ [][StoreNext]_vars

---------------------------------------------------------------------------
(* The read routes of the authenticated server (DatabaseStorage). *)

Users == {"admin", "viewer"}
\* users.role
Role(u) == IF u = "admin" THEN "admin" ELSE "viewer"

\* Duplicate-free sequences over a set: the rows a user can have in
\* user_category_permissions, in the order getUserCategories returns them.
Orderings(S) ==
    {q \in [1 .. Cardinality(S) -> S] : \A i, j \in 1 .. Cardinality(S) : q[i] = q[j] => i = j}
CategoryLists == UNION {Orderings(S) : S \in SUBSET Categories}

\* The combined view of a service (ServiceWithDetails), as far as it is read here.
Details(s) == [id |-> s.id, categoryId |-> s.categoryId, healthData |-> DbHealthStatus(s.id)]

DbGetServicesWithDetails(categoryIds) == {Details(s) : s \in DbSelectServices(categoryIds)}

\* const categoryIds = user?.categories?.map(c => c.id) || [] for a viewer;
\* an admin calls the storage without the argument.
RouteCategoryIds(u) == IF Role(u) = "admin" THEN Omitted ELSE Given(userCategories[u])

NoSummary == Summary(0, 0, 0)
NoResp ==
    [route |-> "none", caller |-> "none", id |-> 0, status |-> 0,
     categoryIds |-> Omitted, list |-> {}, summary |-> NoSummary]

\* GET /api/services
ServicesResponse(u) ==
    [NoResp EXCEPT !.route = "GET /api/services", !.caller = u, !.status = 200,
                   !.categoryIds = RouteCategoryIds(u),
                   !.list = DbGetServicesWithDetails(RouteCategoryIds(u))]

\* GET /api/health/summary
SummaryResponse(u) ==
    [NoResp EXCEPT !.route = "GET /api/health/summary", !.caller = u, !.status = 200,
                   !.categoryIds = RouteCategoryIds(u),
                   !.summary = DbGetHealthSummary(RouteCategoryIds(u))]

\* GET /api/services/:id
ServiceResponse(u, id) ==
    IF getService(id) = {Undefined}
    THEN [NoResp EXCEPT !.route = "GET /api/services/:id", !.caller = u, !.id = id,
                        !.status = 404]
    ELSE [NoResp EXCEPT !.route = "GET /api/services/:id", !.caller = u, !.id = id,
                        !.status = 200,
                        !.list = {Details(CHOOSE s \in services : s.id = id)}]

---------------------------------------------------------------------------
(* SpecQuery: the store behind the authenticated server, its users'        *)
(* permissions, and the read requests.                                       *)

idleCycles == UNCHANGED <<intervalId, timers, cycles, backend, lastCall, downstream>>

QueryCreateService ==
    /\ \E cat \in Categories : DoCreateService(cat)
    /\ UNCHANGED <<clock, userCategories, resp>> /\ idleCycles

QueryDeleteService ==
    /\ \E id \in ExistingIds : DoDeleteService(id)
    /\ UNCHANGED <<clock, userCategories, resp>> /\ idleCycles

\* The health record of a service, as the monitoring service writes it.
QueryUpsertHealthData ==
    /\ \E h \in StoreHealthInputs : DoUpsertHealthData(h)
    /\ UNCHANGED <<clock, userCategories, resp>> /\ idleCycles

\* PUT /api/users/:id/permissions -> setUserCategoryPermissions
SetUserCategoryPermissions ==
    /\ \E ids \in CategoryLists :
          userCategories' = [userCategories EXCEPT !["viewer"] = ids]
    /\ UNCHANGED <<storeVars, clock, resp>> /\ idleCycles

GetServices ==
    /\ \E u \in Users : resp' = ServicesResponse(u)
    /\ UNCHANGED <<storeVars, clock, userCategories>> /\ idleCycles

GetHealthSummary ==
    /\ \E u \in Users : resp' = SummaryResponse(u)
    /\ UNCHANGED <<storeVars, clock, userCategories>> /\ idleCycles

GetService ==
    /\ \E u \in Users, id \in ServiceIds : resp' = ServiceResponse(u, id)
    /\ UNCHANGED <<storeVars, clock, userCategories>> /\ idleCycles

QueryInit ==
    /\ backend = "db"
    /\ EmptyStore
    /\ userCategories = [u \in Users |-> <<>>]
    /\ resp = NoResp
    /\ intervalId = 0
    /\ timers = {}
    /\ cycles = <<>>
    /\ downstream = <<>>

QueryNext ==
    \/ QueryCreateService
    \/ QueryDeleteService
    \/ QueryUpsertHealthData
    \/ SetUserCategoryPermissions
    \/ GetServices
    \/ GetHealthSummary
    \/ GetService

SpecQuery == QueryInit /\ [][QueryNext]_vars

---------------------------------------------------------------------------
(* The downstream services, as the three probes of monitorService see them. *)

HttpStatuses == {200, 204, 503}

\* No response yet.
NoResponse ==
    [kind |-> "none", status |-> 0, bodyStatus |-> "undefined",
     components |-> "undefined"]
\* axios.get rejects: DNS failure, connection refused, timeout.
TransportError == [NoResponse EXCEPT !.kind = "error"]
\* The outcomes of GET /actuator/health: data?.status and data?.components
\* are undefined when the body lacks them or is no object.
HealthOutcomes ==
    {TransportError} \cup
    {[kind |-> "response", status |-> st, bodyStatus |-> b, components |-> cm] :
        st \in HttpStatuses, b \in Statuses \cup {"undefined"},
        cm \in ComponentMaps \cup {"undefined"}}

\* The body of /actuator/info, as far as it is read: data.build?.version,
\* data.git?.branch, data.build?.time, and whether data is truthy.
NoBody ==
    [truthy |-> FALSE, version |-> "undefined", branch |-> "undefined",
     time |-> "undefined"]
InfoBodies ==
    {NoBody,
     [truthy |-> TRUE, version |-> "1.0", branch |-> "main", time |-> "t1"],
     [truthy |-> TRUE, version |-> "undefined", branch |-> "undefined",
      time |-> "undefined"]}
InfoOutcomes ==
    {[kind |-> "error", status |-> 0, data |-> NoBody]} \cup
    {[kind |-> "response", status |-> 200, data |-> b] : b \in InfoBodies} \cup
    {[kind |-> "response", status |-> st, data |-> NoBody] : st \in HttpStatuses \ {200}}

\* The body of /actuator/kafkastreams, as far as it is read.
NoKafkaBody ==
    [truthy |-> FALSE, state |-> "undefined", threads |-> 0, topics |-> <<>>,
     isArray |-> FALSE, partitions |-> 0]
KafkaBodies ==
    {NoKafkaBody,
     [truthy |-> TRUE, state |-> "RUNNING", threads |-> 2, topics |-> <<"a", "b">>,
      isArray |-> TRUE, partitions |-> 4]}
KafkaOutcomes ==
    {[kind |-> "error", status |-> 0, data |-> NoKafkaBody]} \cup
    {[kind |-> "response", status |-> 200, data |-> b] : b \in KafkaBodies} \cup
    {[kind |-> "response", status |-> st, data |-> NoKafkaBody] :
        st \in HttpStatuses \ {200}}

\* axios.get with the default validateStatus: the promise rejects on a
\* transport error and on every status outside 2xx.
Rejects(r) == r.kind = "error" \/ r.status < 200 \/ r.status >= 300

\* n ? n.toString() : null
NumberToString(n) == IF n = 0 THEN NULL ELSE ToString(n)
\* Array.prototype.join
RECURSIVE Join(_, _)
Join(q, sep) ==
    IF q = <<>> THEN ""
    ELSE IF Len(q) = 1 THEN q[1]
    ELSE q[1] \o sep \o Join(Tail(q), sep)

---------------------------------------------------------------------------
(* MonitoringService.monitorService: the arguments of its upserts. *)

\* A classification that trusts the body alone.
HealthStatusOfBodyOnly(r) == IF r.bodyStatus = "UP" THEN "UP" ELSE "DOWN"

\* healthResponse.status === 200 && healthResponse.data?.status === 'UP' ? 'UP' : 'DOWN'
HealthStatus(r) == IF r.status = 200 /\ r.bodyStatus = "UP" THEN "UP" ELSE "DOWN"

\* An argument that leaves the components of the body out.
HealthArgsWithoutComponents(sid, r) ==
    [serviceId |-> sid, status |-> HealthStatus(r), healthComponents |-> NULL]

HealthArgs(sid, r) ==
    [serviceId |-> sid, status |-> HealthStatus(r),
     healthComponents |-> OrNull(r.components)]
\* The catch block: the service is unreachable.
UnreachableArgs(sid) == [serviceId |-> sid, status |-> "DOWN", healthComponents |-> NULL]
HealthUpsertArgs(sid, r) ==
    IF r.kind = "error" THEN UnreachableArgs(sid) ELSE HealthArgs(sid, r)

InfoArgs(sid, data) ==
    [serviceId |-> sid, version |-> OrNull(data.version),
     branch |-> OrNull(data.branch), buildTime |-> OrNull(data.time)]

KafkaArgs(sid, data) ==
    [serviceId |-> sid, state |-> OrNull(data.state),
     threads |-> NumberToString(data.threads),
     topics |-> IF data.isArray THEN Join(data.topics, ", ") ELSE NULL,
     partitions |-> NumberToString(data.partitions)]

\* An info probe whose failure is taken for an empty answer to store.
StoresInfoEvenIfRejected(r) == Rejects(r) \/ (r.status = 200 /\ r.data.truthy)

\* infoResponse.status === 200 && infoResponse.data, once axios.get resolved
StoresInfo(r) == ~Rejects(r) /\ r.status = 200 /\ r.data.truthy

---------------------------------------------------------------------------
(* The monitorServices() invocations. Each slot holds one invocation: where  *)
(* it stands, the services it listed, and the locals of the monitorService  *)
(* call it is in.                                                            *)

CycleSlots == DOMAIN cycles

IdleCycle ==
    [pc |-> "idle", list |-> <<>>, idx |-> 0,
     startedAt |-> 0,                \* the time monitorServices() was called
     aborted |-> "no",               \* what the catch block of monitorServices caught
     healthResponse |-> NoResponse,  \* the outcome of the health probe
     wrote |-> "none",               \* the status upsertHealthData has stored
     info |-> "none",                \* what the info probe gave
     kafka |-> "none",               \* what the kafkastreams probe gave
     infoData |-> NoBody,            \* the body an upsertServiceInfo in progress stores
     kafkaData |-> NoKafkaBody,      \* the same for upsertKafkaStreamsInfo
     handled |-> {},                 \* services whose upsertHealthData completed
     caught |-> {}]                  \* services whose outer catch block ran

FreeSlots == {c \in CycleSlots : cycles[c].pc \in {"idle", "done"}}
Running(c) == cycles[c].pc \notin {"idle", "done"}
Current(c) == cycles[c].list[cycles[c].idx]

\* storage.getAllServices(): MemStorage answers in insertion order, the SQL
\* backends in any order (no ORDER BY).
RECURSIVE Ascending(_)
Ascending(S) ==
    IF S = {} THEN <<>>
    ELSE <<CHOOSE x \in S : \A y \in S : x <= y>>
            \o Ascending(S \ {CHOOSE x \in S : \A y \in S : x <= y})
getAllServices ==
    IF backend = "mem" THEN {Ascending(ExistingIds)} ELSE Orderings(ExistingIds)

\* A call of monitorServices() that is put off.
BeginCycleNever(list, now) == UNCHANGED cycles

\* monitorServices(): the services are listed and the loop is entered.
BeginCycle(list, now) ==
    cycles' = [cycles EXCEPT ![CHOOSE c \in FreeSlots : \A d \in FreeSlots : c <= d] =
                  IF list = <<>> THEN [IdleCycle EXCEPT !.pc = "done", !.startedAt = now]
                  ELSE [IdleCycle EXCEPT !.pc = "health", !.list = list, !.idx = 1,
                                         !.startedAt = now]]

quietRoutes == UNCHANGED <<backend, lastCall, userCategories, resp, downstream>>

\* setInterval hands out a timer that is not in use.
NewTimer == CHOOSE t \in 1 .. (Cardinality(timers) + 1) : t \notin timers

\* start(): a new interval timer, and monitorServices() at once. The model
\* follows start() while fewer than limit timers are active.
StartWithin(limit) ==
    /\ Cardinality(timers) < limit
    /\ FreeSlots # {}
    /\ timers' = timers \cup {NewTimer}
    /\ intervalId' = NewTimer
    /\ \E list \in getAllServices : BeginCycle(list, clock)
    /\ UNCHANGED <<storeVars, clock>> /\ quietRoutes

Start == StartWithin(MaxTimers)

\* A stop() that also drops the cycles in flight.
StopCancelsCycles ==
    /\ IF intervalId # 0
       THEN timers' = timers \ {intervalId} /\ intervalId' = 0
       ELSE UNCHANGED <<timers, intervalId>>
    /\ cycles' = [c \in CycleSlots |-> IdleCycle]
    /\ UNCHANGED <<storeVars, clock>> /\ quietRoutes

\* A stop() that sets a timer when there is none to clear.
StopToggles ==
    /\ IF intervalId # 0
       THEN timers' = timers \ {intervalId} /\ intervalId' = 0
       ELSE timers' = timers \cup {NewTimer} /\ intervalId' = NewTimer
    /\ UNCHANGED <<storeVars, clock, cycles>> /\ quietRoutes

\* stop(): clearInterval on the timer set last, if there is one.
Stop ==
    /\ IF intervalId # 0
       THEN timers' = timers \ {intervalId} /\ intervalId' = 0
       ELSE UNCHANGED <<timers, intervalId>>
    /\ UNCHANGED <<storeVars, clock, cycles>> /\ quietRoutes

\* An active timer fires, a period after it fired last.
TimerFires ==
    /\ timers # {}
    /\ clock < MaxClock
    /\ clock' = clock + 1
    /\ FreeSlots # {}
    /\ \E list \in getAllServices : BeginCycle(list, clock + 1)
    /\ UNCHANGED <<storeVars, intervalId, timers>> /\ quietRoutes

\* A loop that a caught service ends.
NextServiceUnlessCaught(cy) ==
    IF cy.idx = Len(cy.list) \/ cy.list[cy.idx] \in cy.caught
    THEN [cy EXCEPT !.pc = "done"]
    ELSE [cy EXCEPT !.pc = "health", !.idx = @ + 1,
                    !.healthResponse = NoResponse, !.wrote = "none",
                    !.info = "none", !.kafka = "none"]

\* for (const service of services): the next service, or the end of the cycle.
NextService(cy) ==
    IF cy.idx = Len(cy.list) THEN [cy EXCEPT !.pc = "done"]
    ELSE [cy EXCEPT !.pc = "health", !.idx = @ + 1,
                    !.healthResponse = NoResponse, !.wrote = "none",
                    !.info = "none", !.kafka = "none"]

\* upsertHealthData has resolved: after the try block the info probe is next,
\* after the catch block monitorService returns.
AfterHealthUpsert(cy) ==
    IF cy.healthResponse.kind = "error"
    THEN [cy EXCEPT !.pc = "return", !.wrote = UnreachableArgs(cy.list[cy.idx]).status,
                    !.handled = @ \cup {cy.list[cy.idx]},
                    !.caught = @ \cup {cy.list[cy.idx]}]
    ELSE [cy EXCEPT !.pc = "info", !.wrote = HealthStatus(cy.healthResponse),
                    !.handled = @ \cup {cy.list[cy.idx]}]

(* The health probe ends and upsertHealthData is called with what it gave.   *)
(* MemStorage and DatabaseStorage store the record in one step; PgStorage    *)
(* first deletes the rows of the service and inserts the new row afterwards. *)
HealthProbeGives(c, r) ==
    /\ cycles[c].pc = "health"
    /\ IF backend = "pg"
          THEN /\ healthData' = DeleteByServiceId(healthData, Current(c))
               /\ cycles' = [cycles EXCEPT ![c] = [@ EXCEPT !.pc = "healthInsert",
                                                            !.healthResponse = r]]
          ELSE /\ healthData' =
                     UpsertedHealthData(healthData, HealthUpsertArgs(Current(c), r),
                                        RecordUuid(healthData, Current(c)), clock)
               /\ cycles' = [cycles EXCEPT ![c] =
                                AfterHealthUpsert([@ EXCEPT !.healthResponse = r])]
    /\ UNCHANGED <<services, serviceInfo, kafkaStreamsInfo, nextServiceId, clock,
                   intervalId, timers>>
    /\ quietRoutes

HealthProbeReturns(c) == \E r \in HealthOutcomes : HealthProbeGives(c, r)

\* PgStorage.upsertHealthData, second statement.
HealthInsert(c) ==
    /\ cycles[c].pc = "healthInsert"
    /\ healthData' =
          PgInsert(healthData,
                   HealthRow(GeneratedId,
                             HealthUpsertArgs(Current(c), cycles[c].healthResponse), clock))
    /\ cycles' = [cycles EXCEPT ![c] = AfterHealthUpsert(@)]
    /\ UNCHANGED <<services, serviceInfo, kafkaStreamsInfo, nextServiceId, clock,
                   intervalId, timers>>
    /\ quietRoutes

\* What the info (kafkastreams) probe gave: a rejected promise, a status other
\* than 200, no data, or data to store.
ProbeEnd(r) ==
    IF Rejects(r) THEN "rejected"
    ELSE IF r.status # 200 THEN "not200"
    ELSE IF ~r.data.truthy THEN "nodata" ELSE "ok"

\* The info probe ends.
InfoProbeGives(c, r) ==
    /\ cycles[c].pc = "info"
    /\ IF StoresInfo(r)
          THEN IF backend = "pg"
               THEN /\ serviceInfo' = DeleteByServiceId(serviceInfo, Current(c))
                    /\ cycles' = [cycles EXCEPT ![c] =
                                     [@ EXCEPT !.pc = "infoInsert", !.infoData = r.data,
                                               !.info = ProbeEnd(r),
                                               !.healthResponse = NoResponse]]
               ELSE /\ serviceInfo' =
                          UpsertedServiceInfo(serviceInfo, InfoArgs(Current(c), r.data),
                                              RecordUuid(serviceInfo, Current(c)), clock)
                    /\ cycles' = [cycles EXCEPT ![c] =
                                     [@ EXCEPT !.pc = "kafka", !.info = ProbeEnd(r),
                                               !.healthResponse = NoResponse]]
          ELSE /\ serviceInfo' = serviceInfo
               /\ cycles' = [cycles EXCEPT ![c] =
                                [@ EXCEPT !.pc = "kafka", !.info = ProbeEnd(r),
                                          !.healthResponse = NoResponse]]
    /\ UNCHANGED <<services, healthData, kafkaStreamsInfo, nextServiceId, clock,
                   intervalId, timers>>
    /\ quietRoutes

InfoProbeReturns(c) == \E r \in InfoOutcomes : InfoProbeGives(c, r)

\* PgStorage.upsertServiceInfo, second statement.
InfoInsert(c) ==
    /\ cycles[c].pc = "infoInsert"
    /\ serviceInfo' =
          PgInsert(serviceInfo,
                   InfoRow(GeneratedId, InfoArgs(Current(c), cycles[c].infoData), clock))
    /\ cycles' = [cycles EXCEPT ![c] =
                     [@ EXCEPT !.pc = "kafka", !.infoData = NoBody]]
    /\ UNCHANGED <<services, healthData, kafkaStreamsInfo, nextServiceId, clock,
                   intervalId, timers>>
    /\ quietRoutes

\* kafkaResponse.status === 200 && kafkaResponse.data, once axios.get resolved
StoresKafka(r) == ~Rejects(r) /\ r.status = 200 /\ r.data.truthy

\* The kafkastreams probe ends; monitorService returns after its block.
KafkaProbeGives(c, r) ==
    /\ cycles[c].pc = "kafka"
    /\ IF StoresKafka(r)
          THEN IF backend = "pg"
               THEN /\ kafkaStreamsInfo' = DeleteByServiceId(kafkaStreamsInfo, Current(c))
                    /\ cycles' = [cycles EXCEPT ![c] =
                                     [@ EXCEPT !.pc = "kafkaInsert", !.kafkaData = r.data,
                                               !.kafka = ProbeEnd(r)]]
               ELSE /\ kafkaStreamsInfo' =
                          UpsertedKafkaStreamsInfo(kafkaStreamsInfo,
                                                   KafkaArgs(Current(c), r.data),
                                                   RecordUuid(kafkaStreamsInfo, Current(c)),
                                                   clock)
                    /\ cycles' = [cycles EXCEPT ![c] =
                                     [@ EXCEPT !.pc = "return", !.kafka = ProbeEnd(r)]]
          ELSE /\ kafkaStreamsInfo' = kafkaStreamsInfo
               /\ cycles' = [cycles EXCEPT ![c] =
                                [@ EXCEPT !.pc = "return", !.kafka = ProbeEnd(r)]]
    /\ UNCHANGED <<services, healthData, serviceInfo, nextServiceId, clock,
                   intervalId, timers>>
    /\ quietRoutes

KafkaProbeReturns(c) == \E r \in KafkaOutcomes : KafkaProbeGives(c, r)

\* PgStorage.upsertKafkaStreamsInfo, second statement.
KafkaInsert(c) ==
    /\ cycles[c].pc = "kafkaInsert"
    /\ kafkaStreamsInfo' =
          PgInsert(kafkaStreamsInfo,
                   KafkaRow(GeneratedId, KafkaArgs(Current(c), cycles[c].kafkaData), clock))
    /\ cycles' = [cycles EXCEPT ![c] =
                     [@ EXCEPT !.pc = "return", !.kafkaData = NoKafkaBody]]
    /\ UNCHANGED <<services, healthData, serviceInfo, nextServiceId, clock,
                   intervalId, timers>>
    /\ quietRoutes

\* A monitorService whose promise never settles.
MonitorServiceNeverReturns(c) ==
    /\ cycles[c].pc = "return"
    /\ UNCHANGED vars

\* await this.monitorService(...) resumes the loop of monitorServices().
MonitorServiceReturns(c) ==
    /\ cycles[c].pc = "return"
    /\ cycles' = [cycles EXCEPT ![c] = NextService(@)]
    /\ UNCHANGED <<storeVars, clock, intervalId, timers>>
    /\ quietRoutes

\* POST /api/services, at any moment (the monitoring service does not read
\* the category of a service).
PostService ==
    /\ DoCreateService("c1")
    /\ UNCHANGED <<clock, intervalId, timers, cycles>> /\ quietRoutes

Init ==
    /\ backend \in Backends
    /\ EmptyStore
    /\ userCategories = <<>>
    /\ resp = <<>>
    /\ intervalId = 0
    /\ timers = {}
    /\ cycles = [c \in 1 .. MaxCycles |-> IdleCycle]
    /\ downstream = <<>>

Next ==
    \/ Start
    \/ Stop
    \/ TimerFires
    \/ PostService
    \/ \E c \in CycleSlots :
          \/ HealthProbeReturns(c)
          \/ HealthInsert(c)
          \/ InfoProbeReturns(c)
          \/ InfoInsert(c)
          \/ KafkaProbeReturns(c)
          \/ KafkaInsert(c)
          \/ MonitorServiceReturns(c)

Spec == Init /\ [][Next]_vars

---------------------------------------------------------------------------
(* SpecSchedule: the timer, the cycles it starts while earlier ones are      *)
(* still running, the close handler of the server and the refresh route.    *)
(* The downstream services either answer /actuator/health with 200 and      *)
(* status "UP" or cannot be reached, and have no info and no kafkastreams   *)
(* endpoint.                                                                *)

Answers200Up ==
    [kind |-> "response", status |-> 200, bodyStatus |-> "UP",
     components |-> "undefined"]
PlainHealthOutcomes == {TransportError, Answers200Up}
NoInfoEndpoint == [kind |-> "error", status |-> 0, data |-> NoBody]
NoKafkaEndpoint == [kind |-> "error", status |-> 0, data |-> NoKafkaBody]

\* The three probes of a service of this kind.
PlainHealthProbeReturns(c) == \E r \in PlainHealthOutcomes : HealthProbeGives(c, r)
InfoEndpointMissing(c) == InfoProbeGives(c, NoInfoEndpoint)
KafkaEndpointMissing(c) == KafkaProbeGives(c, NoKafkaEndpoint)

\* POST /api/services/refresh
NoRefresh == [route |-> "none", status |-> 0, count |-> 0]
\* A refresh that counts the services that have a HealthRecord.
RefreshResponseOfStored ==
    [route |-> "POST /api/services/refresh", status |-> 200,
     count |-> BagCardinality(healthData)]

RefreshResponse ==
    [route |-> "POST /api/services/refresh", status |-> 200,
     count |-> Cardinality(services)]
Refresh ==
    /\ resp' = RefreshResponse
    /\ UNCHANGED <<storeVars, clock, intervalId, timers, cycles, backend, lastCall,
                   userCategories, downstream>>

ScheduleInit ==
    /\ backend \in Backends
    /\ EmptyStore
    /\ userCategories = <<>>
    /\ resp = NoRefresh
    /\ intervalId = 0
    /\ timers = {}
    /\ cycles = [c \in 1 .. MaxOverlap |-> IdleCycle]
    /\ downstream = <<>>

ScheduleNext ==
    \/ Start
    \/ Stop
    \/ TimerFires
    \/ PostService
    \/ Refresh
    \/ \E c \in CycleSlots :
          \/ PlainHealthProbeReturns(c)
          \/ HealthInsert(c)
          \/ InfoEndpointMissing(c)
          \/ KafkaEndpointMissing(c)
          \/ MonitorServiceReturns(c)

SpecSchedule == ScheduleInit /\ [][ScheduleNext]_vars

---------------------------------------------------------------------------
(* SpecFail: the monitor over DatabaseStorage when a statement of the store *)
(* can be rejected (the database is unreachable, the pool is exhausted).     *)
(* The downstream services answer the health probe with 200 and UP, or not  *)
(* at all; their info and kafkastreams endpoints answer in every way.        *)

\* monitorServices() whose getAllServices() was rejected: the catch block of
\* monitorServices logs the error and the invocation is over.
ListRejected(now) ==
    [IdleCycle EXCEPT !.pc = "done", !.startedAt = now, !.aborted = "list"]

BeginCycleListRejects(now) ==
    cycles' = [cycles EXCEPT ![CHOOSE c \in FreeSlots : \A d \in FreeSlots : c <= d] =
                  ListRejected(now)]

\* start() while the store rejects the listing.
StartListRejects ==
    /\ Cardinality(timers) < MaxTimers
    /\ FreeSlots # {}
    /\ timers' = timers \cup {NewTimer}
    /\ intervalId' = NewTimer
    /\ BeginCycleListRejects(clock)
    /\ UNCHANGED <<storeVars, clock>> /\ quietRoutes

\* A tick whose rejected listing is not caught and ends the timers.
TickListRejectsUncaught ==
    /\ timers # {}
    /\ clock < MaxClock
    /\ clock' = clock + 1
    /\ FreeSlots # {}
    /\ BeginCycleListRejects(clock + 1)
    /\ timers' = {}
    /\ intervalId' = 0
    /\ UNCHANGED storeVars /\ quietRoutes

\* An active timer fires while the store rejects the listing.
TickListRejects ==
    /\ timers # {}
    /\ clock < MaxClock
    /\ clock' = clock + 1
    /\ FreeSlots # {}
    /\ BeginCycleListRejects(clock + 1)
    /\ UNCHANGED <<storeVars, intervalId, timers>> /\ quietRoutes

\* The health probe ends and the store rejects upsertHealthData. Called in
\* the try block, the rejection is caught by the outer catch block, which
\* calls upsertHealthData again; called in the catch block (the probe itself
\* failed), the rejection leaves monitorService and is caught by
\* monitorServices, outside its loop.
HealthUpsertRejects(c) ==
    /\ cycles[c].pc = "health"
    /\ \E r \in PlainHealthOutcomes :
          cycles' = [cycles EXCEPT ![c] =
                        IF r.kind = "error"
                        THEN [@ EXCEPT !.pc = "done", !.aborted = "upsert",
                                       !.healthResponse = r,
                                       !.caught = @ \cup {Current(c)}]
                        ELSE [@ EXCEPT !.pc = "catch", !.healthResponse = r,
                                       !.caught = @ \cup {Current(c)}]]
    /\ UNCHANGED <<storeVars, clock, intervalId, timers>>
    /\ quietRoutes

\* The upsertHealthData of the outer catch block, after the one of the try
\* block was rejected, stores DOWN.
CatchUpsert(c) ==
    /\ cycles[c].pc = "catch"
    /\ healthData' =
          UpsertedHealthData(healthData, UnreachableArgs(Current(c)),
                             RecordUuid(healthData, Current(c)), clock)
    /\ cycles' = [cycles EXCEPT ![c] =
                     [@ EXCEPT !.pc = "return",
                               !.wrote = UnreachableArgs(Current(c)).status,
                               !.handled = @ \cup {Current(c)}]]
    /\ UNCHANGED <<services, serviceInfo, kafkaStreamsInfo, nextServiceId, clock,
                   intervalId, timers>>
    /\ quietRoutes

\* The upsertHealthData of the outer catch block is rejected as well.
CatchUpsertRejects(c) ==
    /\ cycles[c].pc = "catch"
    /\ cycles' = [cycles EXCEPT ![c] = [@ EXCEPT !.pc = "done", !.aborted = "upsert"]]
    /\ UNCHANGED <<storeVars, clock, intervalId, timers>>
    /\ quietRoutes

\* A rejected upsertServiceInfo that reaches the outer catch block.
InfoUpsertRejectsUncaught(c) ==
    /\ cycles[c].pc = "info"
    /\ cycles' = [cycles EXCEPT ![c] =
                     [@ EXCEPT !.pc = "catch", !.info = "upsertRejected",
                               !.caught = @ \cup {Current(c)}]]
    /\ UNCHANGED <<storeVars, clock, intervalId, timers>>
    /\ quietRoutes

\* The info probe answers 200 with data and the store rejects
\* upsertServiceInfo: the catch block of the info probe logs it.
InfoUpsertRejects(c) ==
    /\ cycles[c].pc = "info"
    /\ cycles' = [cycles EXCEPT ![c] =
                     [@ EXCEPT !.pc = "kafka", !.info = "upsertRejected",
                               !.healthResponse = NoResponse]]
    /\ UNCHANGED <<storeVars, clock, intervalId, timers>>
    /\ quietRoutes

\* The same for the kafkastreams probe and upsertKafkaStreamsInfo.
KafkaUpsertRejects(c) ==
    /\ cycles[c].pc = "kafka"
    /\ cycles' = [cycles EXCEPT ![c] =
                     [@ EXCEPT !.pc = "return", !.kafka = "upsertRejected"]]
    /\ UNCHANGED <<storeVars, clock, intervalId, timers>>
    /\ quietRoutes

FailInit ==
    /\ backend = "db"
    /\ EmptyStore
    /\ userCategories = <<>>
    /\ resp = NoRefresh
    /\ intervalId = 0
    /\ timers = {}
    /\ cycles = [c \in 1 .. MaxCycles |-> IdleCycle]
    /\ downstream = <<>>

FailNext ==
    \/ Start
    \/ StartListRejects
    \/ Stop
    \/ TimerFires
    \/ TickListRejects
    \/ PostService
    \/ \E c \in CycleSlots :
          \/ PlainHealthProbeReturns(c)
          \/ HealthUpsertRejects(c)
          \/ CatchUpsert(c)
          \/ CatchUpsertRejects(c)
          \/ InfoProbeReturns(c)
          \/ InfoUpsertRejects(c)
          \/ KafkaProbeReturns(c)
          \/ KafkaUpsertRejects(c)
          \/ MonitorServiceReturns(c)

SpecFail == FailInit /\ [][FailNext]_vars

---------------------------------------------------------------------------
(* SpecRepeat: the monitor over services that answer every probe the same   *)
(* way, cycle after cycle, one cycle at a time.                              *)

Answers503Down ==
    [kind |-> "response", status |-> 503, bodyStatus |-> "DOWN",
     components |-> "{db:UP}"]
RepeatedHealthOutcomes == {TransportError, Answers200Up, Answers503Down}
RepeatedInfoOutcomes ==
    {NoInfoEndpoint} \cup
    {[kind |-> "response", status |-> 200, data |-> b] : b \in InfoBodies \ {NoBody}}
RepeatedKafkaOutcomes ==
    {NoKafkaEndpoint} \cup
    {[kind |-> "response", status |-> 200, data |-> b] : b \in KafkaBodies \ {NoKafkaBody}}
Downstreams ==
    [ServiceIds -> [health : RepeatedHealthOutcomes, info : RepeatedInfoOutcomes,
                    kafka : RepeatedKafkaOutcomes]]

RepeatedHealthProbe(c) ==
    /\ cycles[c].pc = "health"
    /\ HealthProbeGives(c, downstream[Current(c)].health)
RepeatedInfoProbe(c) ==
    /\ cycles[c].pc = "info"
    /\ InfoProbeGives(c, downstream[Current(c)].info)
RepeatedKafkaProbe(c) ==
    /\ cycles[c].pc = "kafka"
    /\ KafkaProbeGives(c, downstream[Current(c)].kafka)

RepeatInit ==
    /\ backend \in Backends
    /\ EmptyStore
    /\ userCategories = <<>>
    /\ resp = NoRefresh
    /\ intervalId = 0
    /\ timers = {}
    /\ cycles = [c \in 1 .. MaxCycles |-> IdleCycle]
    /\ downstream \in Downstreams

RepeatNext ==
    \/ Start
    \/ Stop
    \/ TimerFires
    \/ PostService
    \/ \E c \in CycleSlots :
          \/ RepeatedHealthProbe(c)
          \/ HealthInsert(c)
          \/ RepeatedInfoProbe(c)
          \/ InfoInsert(c)
          \/ RepeatedKafkaProbe(c)
          \/ KafkaInsert(c)
          \/ MonitorServiceReturns(c)

SpecRepeat == RepeatInit /\ [][RepeatNext]_vars

---------------------------------------------------------------------------
(* SpecDelete: the monitor over an SQL store while services are registered  *)
(* and deleted through the routes.                                           *)

\* DELETE /api/services/:id for a registered service (an unknown id is
\* answered 404 and changes nothing).
DeleteServiceRoute ==
    /\ \E id \in ExistingIds : DoDeleteService(id)
    /\ UNCHANGED <<clock, intervalId, timers, cycles>> /\ quietRoutes

DeleteInit ==
    /\ backend \in {"pg", "db"}
    /\ EmptyStore
    /\ userCategories = <<>>
    /\ resp = NoRefresh
    /\ intervalId = 0
    /\ timers = {}
    /\ cycles = [c \in 1 .. MaxCycles |-> IdleCycle]
    /\ downstream = <<>>

DeleteNext ==
    \/ Start
    \/ Stop
    \/ TimerFires
    \/ PostService
    \/ DeleteServiceRoute
    \/ \E c \in CycleSlots :
          \/ PlainHealthProbeReturns(c)
          \/ HealthInsert(c)
          \/ InfoEndpointMissing(c)
          \/ KafkaEndpointMissing(c)
          \/ MonitorServiceReturns(c)

SpecDelete == DeleteInit /\ [][DeleteNext]_vars

---------------------------------------------------------------------------
(* SpecTimers: start() and stop() called in any order, start() also while  *)
(* a timer is active.                                                        *)

StartAnew == StartWithin(MaxStarts)

TimersInit ==
    /\ backend \in Backends
    /\ EmptyStore
    /\ userCategories = <<>>
    /\ resp = NoRefresh
    /\ intervalId = 0
    /\ timers = {}
    /\ cycles = [c \in 1 .. MaxCycles |-> IdleCycle]
    /\ downstream = <<>>

TimersNext ==
    \/ StartAnew
    \/ Stop
    \/ TimerFires
    \/ PostService
    \/ \E c \in CycleSlots :
          \/ PlainHealthProbeReturns(c)
          \/ HealthInsert(c)
          \/ InfoEndpointMissing(c)
          \/ KafkaEndpointMissing(c)
          \/ MonitorServiceReturns(c)

SpecTimers == TimersInit /\ [][TimersNext]_vars

---------------------------------------------------------------------------
(* SpecLive: the monitor after start(), never stopped, over a store that    *)
(* does not fail and services whose health probe ends, by an answer or by    *)
(* the timeout. The timer keeps firing; the clock of the model stands still *)
(* once it has reached MaxClock.                                             *)

LiveTimerFires ==
    /\ timers # {}
    /\ FreeSlots # {}
    /\ clock' = IF clock < MaxClock THEN clock + 1 ELSE clock
    /\ \E list \in getAllServices :
          BeginCycle(list, IF clock < MaxClock THEN clock + 1 ELSE clock)
    /\ UNCHANGED <<storeVars, intervalId, timers>> /\ quietRoutes

\* The next step of the cycle in slot c: every await of it settles.
LiveCycleStep(c) ==
    \/ PlainHealthProbeReturns(c)
    \/ HealthInsert(c)
    \/ InfoEndpointMissing(c)
    \/ KafkaEndpointMissing(c)
    \/ MonitorServiceReturns(c)

LiveInit ==
    /\ backend \in Backends
    /\ EmptyStore
    /\ userCategories = <<>>
    /\ resp = NoRefresh
    /\ intervalId = 0
    /\ timers = {}
    /\ cycles = [c \in 1 .. MaxCycles |-> IdleCycle]
    /\ downstream = <<>>

LiveNext ==
    \/ Start
    \/ LiveTimerFires
    \/ PostService
    \/ \E c \in CycleSlots : LiveCycleStep(c)

\* The event loop runs every timer that is due and every continuation whose
\* promise has settled.
LiveFairness ==
    /\ WF_vars(LiveTimerFires)
    /\ \A c \in 1 .. MaxCycles : WF_vars(LiveCycleStep(c))

SpecLive == LiveInit /\ [][LiveNext]_vars /\ LiveFairness

---------------------------------------------------------------------------
(* Claims about the record store (SpecStore). *)

RecordsOf(sid) ==
    ByServiceId(healthData, sid) \cup ByServiceId(serviceInfo, sid)
        \cup ByServiceId(kafkaStreamsInfo, sid)
HasAllThree(sid) ==
    /\ ByServiceId(healthData, sid) # {}
    /\ ByServiceId(serviceInfo, sid) # {}
    /\ ByServiceId(kafkaStreamsInfo, sid) # {}

\* C1: in every reachable state of the store, whatever calls of createService,
\* the three upserts and deleteService came before, there is at most one
\* HealthRecord, one InfoRecord and one StreamsRecord per serviceId: an upsert
\* over an existing record replaces it.
C1_AtMostOneRecordPerService ==
    \A sid \in ServiceIds :
        /\ CountByServiceId(healthData, sid) <= 1
        /\ CountByServiceId(serviceInfo, sid) <= 1
        /\ CountByServiceId(kafkaStreamsInfo, sid) <= 1

\* An upsert of each kind has run for a service that already had a record of
\* that kind, the last of them just now.
C1_Witness ==
    \E sid \in ServiceIds :
        /\ lastCall.op \in {"upsertHealthData", "upsertServiceInfo",
                            "upsertKafkaStreamsInfo"}
        /\ lastCall.id = sid
        /\ lastCall.result
        /\ HasAllThree(sid)
        /\ \E other \in ServiceIds \ {sid} : ByServiceId(healthData, other) # {}

\* C4: a deleteService(id) of an existing service that has a HealthRecord, an
\* InfoRecord and a StreamsRecord leaves no record of any kind with serviceId
\* id, and getService(id) then finds nothing.
C4_DeleteCascades ==
    [][\A id \in ServiceIds :
          (/\ id \in ExistingIds
           /\ HasAllThree(id)
           /\ lastCall' = [op |-> "deleteService", id |-> id, result |-> TRUE])
          => (RecordsOf(id) = {} /\ getService(id) = {Undefined})']_vars

\* C5: in every reachable state of the store the summary satisfies
\* healthy + unhealthy + unknown = total with unknown >= 0.
C5_SummaryArithmetic ==
    /\ getHealthSummary.healthyServices + getHealthSummary.unhealthyServices
          + getHealthSummary.unknownServices = getHealthSummary.totalServices
    /\ getHealthSummary.unknownServices >= 0

---------------------------------------------------------------------------
(* Claims about the read routes (SpecQuery). *)

Permitted(u) == Range(userCategories[u])

\* C6: every service that GET /api/services returns to a non-admin caller has
\* its category in the caller's permitted set; with an empty permitted set the
\* list is empty.
C6_OnlyPermittedCategories ==
    (resp.route = "GET /api/services" /\ Role(resp.caller) # "admin")
        => \A s \in resp.list : s.categoryId \in Range(resp.categoryIds.ids)

\* C7: GET /api/services returns to a non-admin caller every registered service
\* whose category is in the caller's permitted set, and to an admin every
\* registered service.
C7_AllPermittedServices ==
    [][\A u \in Users :
          (resp' # resp /\ resp'.route = "GET /api/services" /\ resp'.caller = u)
          => IF Role(u) = "admin"
             THEN {s.id : s \in resp'.list} = ExistingIds
             ELSE {s \in ExistingIds :
                      \E svc \in services : svc.id = s /\ svc.categoryId \in Permitted(u)}
                     \subseteq {s.id : s \in resp'.list}]_vars

\* C8: for every caller, in every state of the store, the summary of
\* GET /api/health/summary counts exactly the services GET /api/services
\* lists for that caller: their number, and those listed UP and DOWN.
C8_SummaryMatchesList ==
    \A u \in Users :
        /\ SummaryResponse(u).summary.totalServices
              = Cardinality(ServicesResponse(u).list)
        /\ SummaryResponse(u).summary.healthyServices
              = Cardinality({s \in ServicesResponse(u).list : s.healthData = "UP"})
        /\ SummaryResponse(u).summary.unhealthyServices
              = Cardinality({s \in ServicesResponse(u).list : s.healthData = "DOWN"})

\* A viewer restricted to one category has been sent a summary that counts
\* fewer services than are registered, one of them UP, while a service of the
\* other category is DOWN.
C8_Witness ==
    /\ resp.route = "GET /api/health/summary"
    /\ resp.caller = "viewer"
    /\ resp = SummaryResponse("viewer")
    /\ userCategories["viewer"] # <<>>
    /\ resp.summary.totalServices = 1
    /\ resp.summary.healthyServices = 1
    /\ Cardinality(services) = 2
    /\ getHealthSummary.unhealthyServices = 1

\* C9: to a non-admin caller, GET /api/services/:id of a service whose category
\* is outside the caller's permitted set answers as it does for an id that no
\* service has.
C9_NoLeakOutOfScope ==
    [][\A u \in Users, id \in ServiceIds :
          (/\ resp' # resp
           /\ resp'.route = "GET /api/services/:id"
           /\ resp'.caller = u /\ resp'.id = id
           /\ Role(u) # "admin"
           /\ \E s \in services : s.id = id /\ s.categoryId \notin Permitted(u))
          => (resp'.status = 404 /\ resp'.list = {})]_vars

---------------------------------------------------------------------------
(* Claims about the reconciliation cycle (Spec). *)

ProbeFailures == {"rejected", "not200"}

\* C2: whenever monitorService has a HealthRecord stored for a service, the
\* status stored is UP if the health probe gave HTTP 200 with body status "UP",
\* and DOWN for every other outcome, transport failure included; it is never a
\* third value.
C2_StatusUpIffHealthy200 ==
    [][\A c \in CycleSlots :
          (cycles[c].wrote = "none" /\ cycles'[c].wrote # "none")
          => \E h \in ByServiceId(healthData', Current(c)) :
                /\ h.lastChecked = clock'
                /\ h.status = cycles'[c].wrote
                /\ h.status \in {"UP", "DOWN"}
                /\ h.status = "UP" <=>
                      /\ cycles'[c].healthResponse.kind = "response"
                      /\ cycles'[c].healthResponse.status = 200
                      /\ cycles'[c].healthResponse.bodyStatus = "UP"]_vars

\* A service answered its health probe with a status other than 200 and a body
\* whose status is "UP", and is stored as DOWN, while the other service of the
\* cycle is stored as UP.
C2_Witness ==
    \E c \in CycleSlots :
        /\ cycles[c].pc = "info"
        /\ cycles[c].idx = 2
        /\ cycles[c].healthResponse.status = 503
        /\ cycles[c].healthResponse.bodyStatus = "UP"
        /\ cycles[c].wrote = "DOWN"
        /\ \E h \in ByServiceId(healthData, Current(c)) : h.status = "DOWN"
        /\ \E h \in ByServiceId(healthData, cycles[c].list[1]) : h.status = "UP"

\* C3: once the info probe (the kafkastreams probe) of a service has failed
\* in a cycle, by a rejected request or a status other than 200, the health
\* probe of that service had answered and its HealthRecord is written, and no
\* step of the cycle for that service changes the stored InfoRecord
\* (StreamsRecord) of the service.
C3_SoftProbeFailureKeepsRecord ==
    [][\A c \in CycleSlots :
          (cycles'[c] # cycles[c] /\ Running(c)) =>
             /\ cycles'[c].info \in ProbeFailures
                   => /\ ByServiceId(serviceInfo', Current(c))
                            = ByServiceId(serviceInfo, Current(c))
                      /\ CountByServiceId(serviceInfo', Current(c))
                            = CountByServiceId(serviceInfo, Current(c))
                      /\ cycles'[c].wrote \in Statuses
                      /\ Current(c) \in cycles'[c].handled
                      /\ Current(c) \notin cycles'[c].caught
             /\ cycles'[c].kafka \in ProbeFailures
                   => /\ ByServiceId(kafkaStreamsInfo', Current(c))
                            = ByServiceId(kafkaStreamsInfo, Current(c))
                      /\ CountByServiceId(kafkaStreamsInfo', Current(c))
                            = CountByServiceId(kafkaStreamsInfo, Current(c))
                      /\ cycles'[c].wrote \in Statuses
                      /\ Current(c) \in cycles'[c].handled
                      /\ Current(c) \notin cycles'[c].caught]_vars

\* In a later cycle the info probe and the kafkastreams probe of a service
\* have both failed; the service was stored UP in this cycle, and its
\* InfoRecord and StreamsRecord are the ones an earlier cycle stored.
C3_Witness ==
    \E c \in CycleSlots :
        /\ cycles[c].pc = "return"
        /\ cycles[c].info = "rejected"
        /\ cycles[c].kafka = "not200"
        /\ cycles[c].wrote = "UP"
        /\ \E h \in ByServiceId(healthData, Current(c)) :
              h.status = "UP" /\ h.lastChecked = clock
        /\ \E i \in ByServiceId(serviceInfo, Current(c)) :
              i.version = "1.0" /\ i.lastUpdated < clock
        /\ \E k \in ByServiceId(kafkaStreamsInfo, Current(c)) :
              k.state = "RUNNING" /\ k.lastUpdated < clock

\* C10: when the health probe of a listed service throws, the catch block of
\* that service's monitorService call stores a DOWN HealthRecord for it and the
\* call returns to the loop; and a cycle ends only when upsertHealthData has
\* completed for every service it listed.
C10_ProbeExceptionIsolated ==
    [][\A c \in CycleSlots :
          /\ (Running(c) /\ cycles'[c].caught # cycles[c].caught)
                => /\ cycles'[c].caught = cycles[c].caught \cup {Current(c)}
                   /\ cycles'[c].pc = "return"
                   /\ cycles'[c].idx = cycles[c].idx
                   /\ \E h \in ByServiceId(healthData', Current(c)) :
                         /\ h.status = "DOWN"
                         /\ h.healthComponents = NULL
                         /\ h.lastChecked = clock'
          /\ (Running(c) /\ cycles'[c].pc = "done")
                => /\ cycles'[c].handled = Range(cycles'[c].list)
                   /\ cycles'[c].idx = Len(cycles'[c].list)]_vars

\* A cycle over two services has ended: the health probe of the first one
\* threw and it is stored DOWN, the second one was probed after it and is
\* stored UP.
C10_Witness ==
    \E c \in CycleSlots :
        /\ cycles[c].pc = "done"
        /\ Len(cycles[c].list) = 2
        /\ cycles[c].caught = {cycles[c].list[1]}
        /\ cycles[c].handled = Range(cycles[c].list)
        /\ \E h \in ByServiceId(healthData, cycles[c].list[1]) : h.status = "DOWN"
        /\ \E h \in ByServiceId(healthData, cycles[c].list[2]) : h.status = "UP"

\* C11: when the health probe of a service has failed at transport level, the
\* info probe and the kafkastreams probe of that service have been attempted
\* by the time its monitorService call returns.
C11_SoftProbesAfterHealthFailure ==
    \A c \in CycleSlots :
        (cycles[c].pc = "return" /\ Current(c) \in cycles[c].caught)
            => (cycles[c].info # "none" /\ cycles[c].kafka # "none")

---------------------------------------------------------------------------
(* Claims about the timer and the routes beside the cycles (SpecSchedule). *)

FirstFree == CHOOSE c \in FreeSlots : \A d \in FreeSlots : c <= d

\* In the step at hand slot c takes a cycle that was called at time now, has
\* listed the services and has handled none of them.
Begun(c, now) ==
    /\ cycles'[c].startedAt = now
    /\ cycles'[c].list \in getAllServices
    /\ cycles'[c].handled = {}
    /\ cycles'[c].pc = IF cycles'[c].list = <<>> THEN "done" ELSE "health"
    /\ \A d \in CycleSlots \ {c} : cycles'[d] = cycles[d]

\* C12: a start() step sets a timer and begins exactly one cycle in the same
\* step, at the time of the call, and returns with that cycle still to run;
\* every tick of an active timer begins exactly one new cycle, and a tick is
\* possible while an earlier cycle is running; no other step begins a cycle.
C12_StartRunsOneCycleThenEveryTick ==
    [][/\ (intervalId' # 0 /\ intervalId' # intervalId)
             => /\ clock' = clock
                /\ intervalId' \notin timers
                /\ timers' = timers \cup {intervalId'}
                /\ Begun(FirstFree, clock)
       /\ clock' # clock
             => /\ timers # {}
                /\ timers' = timers
                /\ Begun(FirstFree, clock')
       /\ (timers # {} /\ clock < MaxClock /\ FreeSlots # {}) => ENABLED TimerFires
       /\ (clock' = clock /\ intervalId' \in {0, intervalId})
             => \A c \in CycleSlots :
                   /\ cycles'[c].startedAt = cycles[c].startedAt
                   /\ cycles'[c].list = cycles[c].list
                   /\ Running(c) \/ cycles'[c].pc = cycles[c].pc]_vars

\* The cycle that start() began is at its first probe when a tick has begun a
\* second cycle beside it.
C12_Witness ==
    /\ intervalId # 0
    /\ \E c, d \in CycleSlots :
          /\ cycles[c].pc = "health" /\ cycles[c].startedAt = 0
          /\ cycles[c].handled = {}
          /\ cycles[d].pc = "health" /\ cycles[d].startedAt = 1
          /\ Len(cycles[d].list) = 2

C19_LaterCycleWins ==
    \A c, d \in CycleSlots :
        (/\ cycles[c].pc = "done" /\ cycles[d].pc = "done"
         /\ cycles[c].list # <<>> /\ cycles[d].list # <<>>
         /\ cycles[c].list[Len(cycles[c].list)] = cycles[d].list[Len(cycles[d].list)]
         /\ cycles[c].startedAt < cycles[d].startedAt)
        => \A h \in ByServiceId(healthData, cycles[d].list[Len(cycles[d].list)]) :
              h.status = cycles[d].wrote

\* A step of the cycle in slot c.
CycleStep(c) ==
    \/ HealthProbeReturns(c)
    \/ HealthInsert(c)
    \/ InfoProbeReturns(c)
    \/ InfoInsert(c)
    \/ KafkaProbeReturns(c)
    \/ KafkaInsert(c)
    \/ MonitorServiceReturns(c)

\* C13: stop() changes no cycle and no record; called with the one timer that
\* one start() has set, it leaves no timer; while there is no timer, no tick
\* begins a cycle; and a cycle in flight can always take its next step, whether
\* a timer is active or not.
C13_StopEndsTicksNotCycles ==
    /\ ~ENABLED (Stop /\ (cycles' # cycles \/ storeVars' # storeVars))
    /\ (intervalId # 0 /\ timers = {intervalId}) => ~ENABLED (Stop /\ timers' # {})
    /\ timers = {} => ~ENABLED TimerFires
    /\ \A c \in CycleSlots : Running(c) => ENABLED CycleStep(c)

\* stop() has been called after a start(): there is no timer, and the cycle
\* that was in flight has stored the record of its first service and is at
\* the probe of its second.
C13_Witness ==
    /\ intervalId = 0
    /\ timers = {}
    /\ \E c \in CycleSlots :
          /\ cycles[c].pc = "health"
          /\ cycles[c].idx = 2
          /\ cycles[c].handled = {cycles[c].list[1]}
          /\ ByServiceId(healthData, cycles[c].list[1]) # {}

\* C14: while no timer is recorded (before any start(), or after a stop()),
\* no stop() step changes anything: not the timers, not the cycles, not the
\* store.
C14_StopWithoutTimerIsNoOp ==
    intervalId = 0 => ~ENABLED (Stop /\ vars' # vars)

\* No timer is recorded, stop() can be called, and there is a cycle in flight
\* and a stored record that it could disturb.
C14_Witness ==
    /\ intervalId = 0
    /\ ENABLED Stop
    /\ \E c \in CycleSlots : Running(c) /\ cycles[c].handled # {}
    /\ healthData # EmptyBag


-----------------------------------------------------------------------------
(* Claims about what a reader sees while the monitor writes.                 *)

\* C20: no service is deleted in SpecSchedule, so once getHealthDataByServiceId
\* finds a record of a service, it finds one after every later step, a step in
\* the middle of an upsert included, and the record it finds has status UP or
\* DOWN.
C20_HealthRecordNeverVanishes ==
    [][\A s \in ServiceIds :
          getHealthDataByServiceId(s) # {Undefined}
             => /\ ByServiceId(healthData', s) # {}
                /\ \A h \in ByServiceId(healthData', s) : h.status \in {"UP", "DOWN"}]_vars


-----------------------------------------------------------------------------
(* Claims about a store that rejects (SpecFail).                             *)

\* C17: a cycle whose listing was rejected is over at once, has probed no
\* service and stored no record; the step in which the listing is rejected
\* changes no record and leaves the timers as the call left them (start()
\* has set its timer, a tick changes none); and while a timer is active the
\* next tick can begin a cycle that lists the services again.
C17_ListFailureAbortsOnlyThatCycle ==
    [][/\ \A c \in CycleSlots :
             cycles'[c].aborted = "list"
                => /\ cycles'[c].pc = "done"
                   /\ cycles'[c].list = <<>>
                   /\ cycles'[c].handled = {} /\ cycles'[c].caught = {}
                   /\ cycles'[c].wrote = "none"
       /\ (\E c \in CycleSlots : cycles'[c].aborted = "list" /\ cycles'[c] # cycles[c])
             => /\ storeVars' = storeVars
                /\ timers' # {}
                /\ timers \subseteq timers'
                /\ (clock' # clock => timers' = timers)
       /\ (/\ \E c \in CycleSlots : cycles[c].aborted = "list"
           /\ timers # {} /\ clock < MaxClock)
             => ENABLED (TimerFires /\ \E c \in CycleSlots :
                                          /\ cycles'[c].aborted = "no"
                                          /\ cycles'[c].startedAt = clock + 1
                                          /\ cycles'[c].list \in getAllServices)
      ]_vars

\* A first cycle has stored a record; the listing of the cycle begun by the
\* next tick was rejected; the record is still there and the timer active.
C17_Witness ==
    /\ \E c \in CycleSlots : cycles[c].aborted = "list" /\ cycles[c].startedAt = 1
    /\ timers # {}
    /\ services # {}
    /\ healthData # EmptyBag

\* C18: when a cycle is over and its listing was not rejected, its loop has
\* reached the last service it listed: a rejected upsert for one service does
\* not keep the services listed after it from being probed.
C18_UpsertFailureContained ==
    \A c \in CycleSlots :
        (cycles[c].pc = "done" /\ cycles[c].aborted # "list")
            => cycles[c].idx = Len(cycles[c].list)


-----------------------------------------------------------------------------
(* Claims about repeated cycles (SpecRepeat).                                *)

\* A table without the identifiers and the timestamps of its rows.
Timeless(rows) ==
    {[f \in DOMAIN r \ {"id", "lastChecked", "lastUpdated"} |-> r[f]] :
        r \in BagToSet(rows)}
TimelessOf(rows, sid) == {r \in Timeless(rows) : r.serviceId = sid}

\* What one cycle stores for a service that answers as downstream[sid] says.
StoredByOneCycle(sid) ==
    [health |-> Timeless(SetToBag({HealthRow(0, HealthUpsertArgs(sid, downstream[sid].health), 0)})),
     info   |-> IF /\ downstream[sid].health.kind = "response"
                   /\ downstream[sid].info.kind = "response"
                   /\ downstream[sid].info.status = 200
                   /\ downstream[sid].info.data.truthy
                THEN Timeless(SetToBag({InfoRow(0, InfoArgs(sid, downstream[sid].info.data), 0)}))
                ELSE {},
     kafka  |-> IF /\ downstream[sid].health.kind = "response"
                   /\ downstream[sid].kafka.kind = "response"
                   /\ downstream[sid].kafka.status = 200
                   /\ downstream[sid].kafka.data.truthy
                THEN Timeless(SetToBag({KafkaRow(0, KafkaArgs(sid, downstream[sid].kafka.data), 0)}))
                ELSE {}]

\* The services that a cycle has handled at least once and that no cycle is
\* handling now.
BeingHandled(sid) == \E c \in CycleSlots : Running(c) /\ Current(c) = sid
HandledBefore(sid) == ByServiceId(healthData, sid) # {} /\ ~BeingHandled(sid)

-----------------------------------------------------------------------------
(* Claims about overlapping cycles and deletions (SpecSchedule, SpecDelete). *)

\* C25: a tick can begin a cycle while another one is running, and once no
\* cycle is running any more, every service that a cycle has stored a
\* HealthRecord for has exactly one, with status UP or DOWN.
C25_OverlapLeavesOneRecord ==
    /\ (/\ \E c \in CycleSlots : Running(c)
        /\ timers # {} /\ clock < MaxClock /\ FreeSlots # {})
          => ENABLED TimerFires
    /\ (\A c \in CycleSlots : ~Running(c))
          => \A sid \in ServiceIds :
                (\E c \in CycleSlots : sid \in cycles[c].handled)
                   => /\ CountByServiceId(healthData, sid) = 1
                      /\ \A h \in ByServiceId(healthData, sid) : h.status \in {"UP", "DOWN"}


\* C21: every stored HealthRecord, InfoRecord and StreamsRecord has the
\* serviceId of a service that exists, also while a cycle that listed a
\* service is running and the service is deleted.
C21_NoOrphanRecords ==
    \A r \in BagToSet(healthData) \cup BagToSet(serviceInfo) \cup BagToSet(kafkaStreamsInfo) :
        r.serviceId \in ExistingIds


-----------------------------------------------------------------------------
(* Claims about what the probes make of their answers (Spec).                *)

\* /actuator/info answers 200 with a body that has neither build nor git.
FieldlessInfo ==
    [kind |-> "response", status |-> 200,
     data |-> [truthy |-> TRUE, version |-> "undefined", branch |-> "undefined",
               time |-> "undefined"]]

\* C22: when the info probe of a service whose InfoRecord carries a version
\* answers 200 with a body without the version, branch and build time, the
\* InfoRecord of the service is after the step what it was before.
C22_FieldlessInfoKeepsRecord ==
    [][\A c \in CycleSlots :
          (/\ cycles[c].pc = "info"
           /\ \E i \in ByServiceId(serviceInfo, Current(c)) : i.version # NULL
           /\ InfoProbeGives(c, FieldlessInfo))
             => ByServiceId(serviceInfo', Current(c)) = ByServiceId(serviceInfo, Current(c))
      ]_vars


-----------------------------------------------------------------------------
(* Claims about reading back what was written (SpecStore).                   *)

\* C23: after a call upsertHealthData(h) has completed, every answer that
\* getHealthDataByServiceId(h.serviceId) can give is a record of that service
\* with the status of h, whatever the store held before.
C23_ReadsBackLastWrite ==
    [][\A h \in StoreHealthInputs :
          (/\ DoUpsertHealthData(h)
           /\ lastCall'.op = "upsertHealthData"
           /\ lastCall'.id = h.serviceId)
             => \A a \in OneOf(ByServiceId(healthData', h.serviceId)) :
                   /\ a # Undefined
                   /\ a.serviceId = h.serviceId
                   /\ a.status = h.status
      ]_vars

\* An upsertHealthData has just replaced the record of a service, and another
\* service has a record with another status.
C23_Witness ==
    /\ lastCall.op = "upsertHealthData"
    /\ lastCall.result
    /\ \E a \in ByServiceId(healthData, lastCall.id) :
          \E b \in BagToSet(healthData) : b.serviceId # a.serviceId /\ b.status # a.status


-----------------------------------------------------------------------------
(* Claims about failures after the health record is written (SpecFail).      *)

\* C24: no step of the info block or of the kafkastreams block of a service,
\* whatever the probe answers and whether the store takes the upsert or
\* rejects it, changes a HealthRecord or the status the cycle has stored, or
\* leads to the outer catch block, where DOWN is written.
C24_SoftProbesLeaveHealthRecord ==
    [][\A c \in CycleSlots :
          (cycles[c].pc \in {"info", "infoInsert", "kafka", "kafkaInsert"}
             /\ cycles'[c] # cycles[c])
             => /\ cycles'[c].pc \in {"infoInsert", "kafka", "kafkaInsert", "return"}
                /\ cycles'[c].wrote = cycles[c].wrote
                /\ cycles'[c].caught = cycles[c].caught
                /\ healthData' = healthData
      ]_vars

\* The health probe of a service gave UP and UP is stored; the store has
\* rejected its upsertServiceInfo, its kafkastreams probe has failed, and
\* monitorService is about to return.
C24_Witness ==
    \E c \in CycleSlots :
        /\ cycles[c].pc = "return"
        /\ cycles[c].wrote = "UP"
        /\ cycles[c].info = "upsertRejected"
        /\ cycles[c].kafka = "rejected"
        /\ \A h \in ByServiceId(healthData, Current(c)) : h.status = "UP"
        /\ ByServiceId(healthData, Current(c)) # {}


\* C30: when the handling of a service ends with DOWN stored for it, the
\* health probe of that handling had not answered 200 with status UP.
C30_DownOnlyIfProbeNotUp ==
    \A c \in CycleSlots :
        (/\ cycles[c].pc = "return"
         /\ cycles[c].wrote = "DOWN"
         /\ \E h \in ByServiceId(healthData, Current(c)) : h.status = "DOWN")
            => ~(/\ cycles[c].healthResponse.kind = "response"
                 /\ cycles[c].healthResponse.status = 200
                 /\ cycles[c].healthResponse.bodyStatus = "UP")


-----------------------------------------------------------------------------
(* Claims about the stored health components (Spec).                         *)

\* The step in which the upsertHealthData of the cycle in slot c resolves.
HealthUpsertResolves(c) ==
    /\ cycles[c].pc \in {"health", "healthInsert"}
    /\ cycles'[c].pc \in {"info", "return"}
    /\ cycles'[c].idx = cycles[c].idx

\* C26: the record that an upsertHealthData of a cycle stores carries the
\* component map of the response body when the body has one, and null when
\* the body has none or the probe failed in transport or timed out; in the
\* latter case its status is DOWN.
C26_ComponentsVerbatimOrNull ==
    [][\A c \in CycleSlots :
          HealthUpsertResolves(c)
             => \E h \in ByServiceId(healthData', Current(c)) :
                   /\ h.lastChecked = clock
                   /\ h.healthComponents =
                         IF /\ cycles'[c].healthResponse.kind = "response"
                            /\ cycles'[c].healthResponse.components \in ComponentMaps
                         THEN cycles'[c].healthResponse.components
                         ELSE NULL
                   /\ cycles'[c].healthResponse.kind = "error" => h.status = "DOWN"
                   /\ \A g \in ByServiceId(healthData', Current(c)) :
                         g = h \/ g \in ByServiceId(healthData, Current(c))
      ]_vars

\* The health probe has answered 503 with a component map and the record is
\* stored with that map.
C26_Witness ==
    \E c \in CycleSlots :
        /\ cycles[c].pc = "info"
        /\ cycles[c].healthResponse.status = 503
        /\ cycles[c].healthResponse.components \in ComponentMaps
        /\ \E h \in ByServiceId(healthData, Current(c)) :
              h.healthComponents = cycles[c].healthResponse.components


\* The health probe of the i-th service a cycle listed ends.
HealthProbeOf(c, i) == cycles[c].idx = i /\ HealthProbeReturns(c)

\* C27: while the health probe of a listed service is pending, the probe of
\* every service listed after it can end, without waiting for the pending one.
C27_LaterProbeNotDelayed ==
    \A c \in CycleSlots :
        cycles[c].pc = "health"
           => \A i \in (cycles[c].idx + 1) .. Len(cycles[c].list) :
                 ENABLED HealthProbeOf(c, i)


-----------------------------------------------------------------------------
(* Claims about the timers (SpecTimers, SpecLive).                           *)

\* C28: whatever start() and stop() calls have been made, at most one
\* interval timer is active, and none is while the monitoring service holds
\* no timer (before the first start() and after a stop()).
C28_AtMostOneTimer ==
    /\ Cardinality(timers) <= 1
    /\ intervalId = 0 => timers = {}


\* C29: once a timer is active, every registered service eventually has a
\* HealthRecord with status UP or DOWN, and every cycle that is running
\* eventually is over.
C29_EveryServiceEventuallyProbed ==
    /\ \A sid \in ServiceIds :
          (sid \in ExistingIds /\ timers # {})
             ~> (\E h \in ByServiceId(healthData, sid) : h.status \in {"UP", "DOWN"})
    /\ \A c \in 1 .. MaxCycles : Running(c) ~> (cycles[c].pc = "done")

\* The timer is active, a cycle begun by a tick is over, it had listed every
\* service, and every service has a HealthRecord.
C29_Witness ==
    /\ timers # {}
    /\ ExistingIds = ServiceIds
    /\ \A c \in CycleSlots :
          /\ cycles[c].pc = "done"
          /\ cycles[c].startedAt >= 1
          /\ Len(cycles[c].list) = MaxServices
    /\ \A sid \in ServiceIds :
          \E h \in ByServiceId(healthData, sid) : h.status \in {"UP", "DOWN"}

===========================================================================
